---------------------------- MODULE Spec2Model ----------------------------
(***************************************************************************)
(* Sentiment-conditioned text generation wrapper: SentimentAnalyzer        *)
(* (sentiment_analyzer.py), TextGenerator (text_generator.py), the         *)
(* configuration tables (config.py) and the generate flow of the UI        *)
(* script (app.py).                                                        *)
(*                                                                         *)
(* Python strings are modelled as sequences of one-character strings, so   *)
(* that strip, startswith, replace, lower and upper are computed character *)
(* by character.  Scores and confidences are fixed-point numbers in units  *)
(* of 1/100.  The two model pipelines are external: what a call to one     *)
(* of them yields (a value or a raised Exception) is an input of the       *)
(* action that makes the call.                                             *)
(***************************************************************************)
EXTENDS Integers, Sequences, FiniteSets, TLC

VARIABLES
    pc,               \* "idle": no call in progress; "returned": a call has ended
    op,               \* the operation that ran last
    args,             \* its arguments
    ret,              \* the value it returned
    raised,           \* TRUE when an exception left the operation instead
    generatorCalls,   \* the invocations of self.generator it made, in order,
                      \* each with what the pipeline yielded
    classifierCalls,  \* the invocations of self.classifier it made, likewise
    trace             \* the set_seed and self.generate calls that
                      \* generate_multiple made, in order

vars == <<pc, op, args, ret, raised, generatorCalls, classifierCalls, trace>>

---------------------------------------------------------------------------
(* Bounds of the model *)

MaxPromptLen == 2
MaxTailLen == 1
MaxRawLen == 5
MaxOutputs == 3

---------------------------------------------------------------------------
(* Python str operations *)

Whitespace == {" ", "\t", "\n"}

UpperChars == <<"A", "B", "C", "D", "E", "F", "G", "H", "I", "J", "K", "L", "M",
                "N", "O", "P", "Q", "R", "S", "T", "U", "V", "W", "X", "Y", "Z">>

LowerChars == <<"a", "b", "c", "d", "e", "f", "g", "h", "i", "j", "k", "l", "m",
                "n", "o", "p", "q", "r", "s", "t", "u", "v", "w", "x", "y", "z">>

lower_char(c) ==
    IF \E i \in 1..Len(UpperChars) : UpperChars[i] = c
    THEN LowerChars[CHOOSE i \in 1..Len(UpperChars) : UpperChars[i] = c]
    ELSE c

upper_char(c) ==
    IF \E i \in 1..Len(LowerChars) : LowerChars[i] = c
    THEN UpperChars[CHOOSE i \in 1..Len(LowerChars) : LowerChars[i] = c]
    ELSE c

lower(s) == [i \in 1..Len(s) |-> lower_char(s[i])]

upper(s) == [i \in 1..Len(s) |-> upper_char(s[i])]

startswith(s, prefix) ==
    /\ Len(prefix) <= Len(s)
    /\ SubSeq(s, 1, Len(prefix)) = prefix

RECURSIVE lstrip(_)
lstrip(s) ==
    IF s # <<>> /\ Head(s) \in Whitespace THEN lstrip(Tail(s)) ELSE s

RECURSIVE rstrip(_)
rstrip(s) ==
    IF s # <<>> /\ s[Len(s)] \in Whitespace
    THEN rstrip(SubSeq(s, 1, Len(s) - 1))
    ELSE s

strip(s) == rstrip(lstrip(s))

\* str.replace(old, new) for a non-empty old: one scan from the left over
\* non-overlapping occurrences; what was substituted is not scanned again.
RECURSIVE replace(_, _, _)
replace(s, old, new) ==
    IF s = <<>> THEN <<>>
    ELSE IF startswith(s, old)
         THEN new \o replace(SubSeq(s, Len(old) + 1, Len(s)), old, new)
         ELSE <<Head(s)>> \o replace(Tail(s), old, new)

\* is_blank without the strip: only the empty string counts as blank.
is_blank_empty_only(s) == s = <<>>

\* `not s or s.strip() == ""`
is_blank(s) == s = <<>> \/ strip(s) = <<>>

SeqsUpTo(S, n) == UNION {[1..k -> S] : k \in 0..n}

---------------------------------------------------------------------------
(* config.py *)

DEFAULT_MAX_LENGTH == 150
MIN_LENGTH == 50
MAX_LENGTH == 500

positive == <<"p", "o", "s", "i", "t", "i", "v", "e">>
negative == <<"n", "e", "g", "a", "t", "i", "v", "e">>
neutral == <<"n", "e", "u", "t", "r", "a", "l">>

PROMPT_TEMPLATES ==
    (positive :>
        [prefix |-> <<"W", "r", "i", "t", "e", " ", "a", "n", " ", "u", "p", "l", "i",
                      "f", "t", "i", "n", "g", " ", "a", "n", "d", " ", "p", "o", "s",
                      "i", "t", "i", "v", "e", " ", "t", "e", "x", "t", " ", "a", "b",
                      "o", "u", "t", ":", " ">>,
         style_words |-> << <<"w", "o", "n", "d", "e", "r", "f", "u", "l">>,
                            <<"a", "m", "a", "z", "i", "n", "g">>,
                            <<"d", "e", "l", "i", "g", "h", "t", "f", "u", "l">>,
                            <<"e", "x", "c", "e", "l", "l", "e", "n", "t">>,
                            <<"f", "a", "n", "t", "a", "s", "t", "i", "c">> >>])
    @@
    (negative :>
        [prefix |-> <<"W", "r", "i", "t", "e", " ", "a", " ", "c", "r", "i", "t", "i",
                      "c", "a", "l", " ", "a", "n", "d", " ", "n", "e", "g", "a", "t",
                      "i", "v", "e", " ", "t", "e", "x", "t", " ", "a", "b", "o", "u",
                      "t", ":", " ">>,
         style_words |-> << <<"d", "i", "s", "a", "p", "p", "o", "i", "n", "t", "i", "n", "g">>,
                            <<"u", "n", "f", "o", "r", "t", "u", "n", "a", "t", "e">>,
                            <<"p", "r", "o", "b", "l", "e", "m", "a", "t", "i", "c">>,
                            <<"c", "o", "n", "c", "e", "r", "n", "i", "n", "g">>,
                            <<"t", "r", "o", "u", "b", "l", "i", "n", "g">> >>])
    @@
    (neutral :>
        [prefix |-> <<"W", "r", "i", "t", "e", " ", "a", "n", " ", "o", "b", "j", "e",
                      "c", "t", "i", "v", "e", " ", "a", "n", "d", " ", "b", "a", "l",
                      "a", "n", "c", "e", "d", " ", "t", "e", "x", "t", " ", "a", "b",
                      "o", "u", "t", ":", " ">>,
         style_words |-> << <<"r", "e", "g", "a", "r", "d", "i", "n", "g">>,
                            <<"c", "o", "n", "c", "e", "r", "n", "i", "n", "g">>,
                            <<"a", "b", "o", "u", "t">>,
                            <<"r", "e", "l", "a", "t", "e", "d", " ", "t", "o">>,
                            <<"p", "e", "r", "t", "a", "i", "n", "i", "n", "g", " ", "t", "o">> >>])

LENGTH_PRESETS == [Short |-> 80, Medium |-> 150, Long |-> 300]

---------------------------------------------------------------------------
(* text_generator.py *)

\* dict.get(key, default)
dict_get(d, key, default) == IF key \in DOMAIN d THEN d[key] ELSE default

\* The seed generate_multiple starts from: `set_seed(42 + i)`.
BASE_SEED == 42

\* random.choice(seq) draws one index of seq; the draw is an input.
StyleDraws == 1..5

\* _create_sentiment_prompt without `sentiment = sentiment.lower()`.
_create_sentiment_prompt_no_lower(prompt, sentiment, draw) ==
    LET template == dict_get(PROMPT_TEMPLATES, sentiment, PROMPT_TEMPLATES[neutral])
        style_word == template.style_words[draw]
    IN  (template.prefix \o prompt \o <<".", " ">>)
        \o (<<"T", "h", "i", "s", " ", "i", "s", " ">> \o style_word \o <<".", " ">>)

\* TextGenerator._create_sentiment_prompt, with random.choice yielding the
\* element at index draw.
_create_sentiment_prompt(prompt, sentiment, draw) ==
    LET template == dict_get(PROMPT_TEMPLATES, lower(sentiment), PROMPT_TEMPLATES[neutral])
        style_word == template.style_words[draw]
    IN  (template.prefix \o prompt \o <<".", " ">>)
        \o (<<"T", "h", "i", "s", " ", "i", "s", " ">> \o style_word \o <<".", " ">>)

\* end_with_punctuation that never appends.
end_with_punctuation_never(cleaned) == cleaned

\* `if cleaned and cleaned[-1] not in ['.', '!', '?']: cleaned += '.'`
end_with_punctuation(cleaned) ==
    IF cleaned # <<>> /\ cleaned[Len(cleaned)] \notin {".", "!", "?"}
    THEN cleaned \o <<".">>
    ELSE cleaned

\* _clean_output that strips the echoed prompt but not the whitespace around
\* what is left.
_clean_output_no_strip(generated_text, prompt_prefix) ==
    end_with_punctuation(
        replace(
            IF startswith(generated_text, prompt_prefix)
            THEN SubSeq(generated_text, Len(prompt_prefix) + 1, Len(generated_text))
            ELSE generated_text,
            <<" ", " ">>, <<" ">>))

\* TextGenerator._clean_output
_clean_output(generated_text, prompt_prefix) ==
    end_with_punctuation(
        replace(
            IF startswith(generated_text, prompt_prefix)
            THEN strip(SubSeq(generated_text, Len(prompt_prefix) + 1, Len(generated_text)))
            ELSE strip(generated_text),
            <<" ", " ">>, <<" ">>))

Min(a, b) == IF a < b THEN a ELSE b
Max(a, b) == IF a > b THEN a ELSE b

\* The optional argument length: None, or an int.
None == [is_none |-> TRUE, value |-> 0]
Int_(n) == [is_none |-> FALSE, value |-> n]

\* clamp_length without the lower bound.
clamp_length_no_floor(length) == Min(length, MAX_LENGTH)

\* `length = max(config.MIN_LENGTH, min(length, config.MAX_LENGTH))`
clamp_length(length) == Max(MIN_LENGTH, Min(length, MAX_LENGTH))

EmptyPromptError ==
    <<"E", "r", "r", "o", "r", ":", " ", "E", "m", "p", "t", "y", " ", "p", "r", "o",
      "m", "p", "t", " ", "p", "r", "o", "v", "i", "d", "e", "d", ".">>

GenerationErrorPrefix ==
    <<"E", "r", "r", "o", "r", " ", "g", "e", "n", "e", "r", "a", "t", "i", "n", "g",
      " ", "t", "e", "x", "t", ":", " ">>

\* What self.generator(enhanced_prompt, ...) yields: result[0]['generated_text']
\* that echoes the prompt and goes on with text, does not echo it, or echoes
\* it twice; or an Exception whose str() is message.
generated_text(enhanced_prompt, yields) ==
    CASE yields.kind = "echo" -> enhanced_prompt \o yields.text
      [] yields.kind = "plain" -> yields.text
      [] yields.kind = "echo_twice" -> enhanced_prompt \o enhanced_prompt \o yields.text

\* generate_except letting the failure leave generate.
generate_reraise(message) == [ret |-> <<>>, raised |-> TRUE]

\* The except clause of generate: the failure becomes the returned string.
generate_except(message) ==
    [ret |-> GenerationErrorPrefix \o message, raised |-> FALSE]

\* TextGenerator.generate
generate(prompt, sentiment, length, draw, yields) ==
    IF is_blank(prompt)
    THEN [ret |-> EmptyPromptError, raised |-> FALSE, generatorCalls |-> <<>>]
    ELSE LET length1 == IF length.is_none THEN DEFAULT_MAX_LENGTH ELSE length.value
             length2 == clamp_length(length1)
             enhanced_prompt == _create_sentiment_prompt(prompt, sentiment, draw)
             call == [prompt |-> enhanced_prompt,
                      max_length |-> length2,
                      num_return_sequences |-> 1,
                      do_sample |-> TRUE,
                      yields |-> yields]
             outcome ==
                 IF yields.kind = "raise"
                 THEN generate_except(yields.message)
                 ELSE [ret |-> _clean_output(generated_text(enhanced_prompt, yields),
                                            enhanced_prompt),
                       raised |-> FALSE]
         IN  [ret |-> outcome.ret, raised |-> outcome.raised, generatorCalls |-> <<call>>]

\* `set_seed(42 + i)` with the seed left at 42 in every iteration.
seed_of_iteration_fixed(i) == BASE_SEED

\* The seed of iteration i of generate_multiple: `42 + i`.
seed_of_iteration(i) == BASE_SEED + i

RECURSIVE Concat(_)
Concat(seqs) == IF seqs = <<>> THEN <<>> ELSE Head(seqs) \o Concat(Tail(seqs))

\* TextGenerator.generate_multiple; draws[k] and yields[k] are what
\* random.choice and the generator give in iteration k - 1 of the loop.  An
\* exception leaving a generate call would end the loop and leave
\* generate_multiple.
generate_multiple(prompt, sentiment, length, num_outputs, draws, yields) ==
    LET results == [k \in 1..num_outputs |->
                        generate(prompt, sentiment, length, draws[k], yields[k])]
        failing == {k \in 1..num_outputs : results[k].raised}
        reached == IF failing = {} THEN num_outputs
                   ELSE CHOOSE k \in failing : \A j \in failing : k <= j
        iteration(k) ==
            << [call |-> "set_seed", seed |-> seed_of_iteration(k - 1)],
               [call |-> "generate", prompt |-> prompt, sentiment |-> sentiment,
                length |-> length, ret |-> results[k].ret, raised |-> results[k].raised] >>
    IN  [ret |-> IF failing = {} THEN [k \in 1..num_outputs |-> results[k].ret] ELSE <<>>,
         raised |-> failing # {},
         generatorCalls |-> Concat([k \in 1..reached |-> results[k].generatorCalls]),
         trace |-> Concat([k \in 1..reached |-> iteration(k)])]

---------------------------------------------------------------------------
(* sentiment_analyzer.py *)

POSITIVE == <<"P", "O", "S", "I", "T", "I", "V", "E">>
NEGATIVE == <<"N", "E", "G", "A", "T", "I", "V", "E">>

EmptyInput == <<"E", "m", "p", "t", "y", " ", "i", "n", "p", "u", "t">>

\* map_label handing the native label on, lower-cased, without the else branch.
map_label_passthrough(native_label) == lower(native_label)

\* `label = result['label'].upper()` and the if / elif / else over it
map_label(native_label) ==
    LET label == upper(native_label)
    IN  IF label = POSITIVE THEN positive
        ELSE IF label = NEGATIVE THEN negative
        ELSE neutral

\* empty_input_result without the error field.
empty_input_result_no_error == [label |-> neutral, confidence |-> 0]

\* What analyze returns for an empty or whitespace-only text.
empty_input_result == [label |-> neutral, confidence |-> 0, error |-> EmptyInput]

\* analyze_except letting the failure leave analyze.
analyze_reraise(message) == [ret |-> <<>>, raised |-> TRUE]

\* The except clause of analyze.
analyze_except(message) ==
    [ret |-> [label |-> neutral, confidence |-> 0, error |-> message], raised |-> FALSE]

\* SentimentAnalyzer.analyze; yields is what self.classifier(text)[0] gives:
\* a label and a score, or an Exception whose str() is message.
analyze(text, yields) ==
    IF is_blank(text)
    THEN [ret |-> empty_input_result,
          raised |-> FALSE,
          classifierCalls |-> <<>>]
    ELSE LET call == [text |-> text, yields |-> yields]
             outcome ==
                 IF yields.kind = "raise"
                 THEN analyze_except(yields.message)
                 ELSE [ret |-> [label |-> map_label(yields.label),
                                confidence |-> yields.score],
                       raised |-> FALSE]
         IN  [ret |-> outcome.ret, raised |-> outcome.raised, classifierCalls |-> <<call>>]

\* The thresholds of get_sentiment_with_details, in hundredths.
VeryConfidentAbove == 90
ConfidentAbove == 70
ModeratelyConfidentAbove == 50

interpret(confidence) ==
    IF confidence > VeryConfidentAbove THEN "Very confident"
    ELSE IF confidence > ConfidentAbove THEN "Confident"
    ELSE IF confidence > ModeratelyConfidentAbove THEN "Moderately confident"
    ELSE "Low confidence"

\* SentimentAnalyzer._get_emoji; the glyphs are named by their code points.
_get_emoji(sentiment) ==
    dict_get((positive :> "U+1F60A") @@ (negative :> "U+1F61E") @@ (neutral :> "U+1F610"),
             sentiment, "U+1F610")

\* SentimentAnalyzer.get_sentiment_with_details
get_sentiment_with_details(text, yields) ==
    LET a == analyze(text, yields)
        result == a.ret
        details == [interpretation |-> interpret(result.confidence),
                    emoji |-> _get_emoji(result.label)]
    IN  [ret |-> result @@ details, raised |-> a.raised, classifierCalls |-> a.classifierCalls]

---------------------------------------------------------------------------
(* app.py *)

\* The options of the "Select Sentiment:" selectbox.
ManualSentimentOptions == <<positive, negative, neutral>>

\* What one press of "Generate Text" shows, from the widget values.
main_generate(user_prompt, use_manual_sentiment, manual_sentiment, length_option, classifier_yields, draw, generator_yields) ==
    IF is_blank(user_prompt)
    THEN [ret |-> [shown |-> "error"], raised |-> FALSE,
          classifierCalls |-> <<>>, generatorCalls |-> <<>>]
    ELSE LET selected_length == LENGTH_PRESETS[length_option]
             d == IF use_manual_sentiment
                  THEN [ret |-> [label |-> manual_sentiment, confidence |-> 100],
                        raised |-> FALSE, classifierCalls |-> <<>>]
                  ELSE get_sentiment_with_details(user_prompt, classifier_yields)
             detected_sentiment == d.ret.label
             confidence == d.ret.confidence
             g == generate(user_prompt, detected_sentiment, Int_(selected_length),
                           draw, generator_yields)
         IN  IF d.raised
             THEN [ret |-> [shown |-> "nothing"], raised |-> TRUE,
                   classifierCalls |-> d.classifierCalls, generatorCalls |-> <<>>]
             ELSE [ret |-> [shown |-> "generated",
                            detected_sentiment |-> detected_sentiment,
                            confidence |-> confidence,
                            generated_text |-> g.ret],
                   raised |-> g.raised,
                   classifierCalls |-> d.classifierCalls,
                   generatorCalls |-> g.generatorCalls]

---------------------------------------------------------------------------
(* Inputs *)

PromptChars == {" ", "a"}
Prompts == SeqsUpTo(PromptChars, MaxPromptLen)

RawChars == {" ", "\t", "a", ".", "?"}
RawTexts == SeqsUpTo(RawChars, MaxRawLen)
CleanPrefixes == {<<>>, <<"a">>, <<"a", " ">>, <<" ">>}

Sentiments ==
    { positive, negative, neutral,
      <<"P", "o", "s", "i", "t", "i", "v", "e">>,
      <<"N", "E", "G", "A", "T", "I", "V", "E">>,
      <<"h", "a", "p", "p", "y">>,
      <<>> }

TailChars == {" ", "a", "!"}
Tails == SeqsUpTo(TailChars, MaxTailLen)

Messages == { <<"b", "o", "o", "m">>, <<"o", "u", "t", " ", "o", "f", " ", "m", "e", "m", "o", "r", "y">> }

GeneratorYields ==
    [kind : {"echo", "plain", "echo_twice"}, text : Tails]
    \cup [kind : {"raise"}, message : Messages]

LengthValues ==
    {-1, 0, MIN_LENGTH - 1, MIN_LENGTH, MIN_LENGTH + 1, MAX_LENGTH, MAX_LENGTH + 1}
Lengths == {None} \cup {Int_(n) : n \in LengthValues}

NativeLabels ==
    { POSITIVE, NEGATIVE, positive,
      <<"N", "e", "g", "a", "t", "i", "v", "e">>,
      <<"N", "E", "U", "T", "R", "A", "L">>,
      <<"L", "A", "B", "E", "L", "_", "1">> }

Scores == {-50, 0, 55, 75, 95, 150}

ClassifierYields ==
    [kind : {"ok"}, label : NativeLabels, score : Scores]
    \cup [kind : {"raise"}, message : Messages]

Texts == Prompts

\* A pipeline that is not invoked yields nothing, and a random.choice that is
\* not reached draws nothing: these inputs range over a single placeholder.
NotCalled == [kind |-> "not called"]
YieldsWhen(called, yields) == IF called THEN yields ELSE {NotCalled}
DrawsWhen(reached) == IF reached THEN StyleDraws ELSE {1}

UiPrompts == { <<>>, <<" ">>, <<"a">>, <<"a", " ", " ", "a">> }

\* The arguments generate_multiple is called with, and what each iteration of
\* its loop can draw and be given by the generator.
MultiPrompts == { <<>>, <<"a">> }
MultiSentiments == { positive, <<"h", "a", "p", "p", "y">> }
MultiLengths == { None, Int_(MAX_LENGTH + 1) }
NumOutputs == {-1} \cup (0..MaxOutputs)
MultiDraws == {1, 5}
MultiYields ==
    { [kind |-> "echo", text |-> <<"a">>],
      [kind |-> "plain", text |-> <<>>],
      [kind |-> "raise", message |-> <<"b", "o", "o", "m">>] }

---------------------------------------------------------------------------
(* State machine *)

NoCalls == <<>>

Init ==
    /\ pc = "idle"
    /\ op = "none"
    /\ args = <<>>
    /\ ret = <<>>
    /\ raised = FALSE
    /\ generatorCalls = NoCalls
    /\ classifierCalls = NoCalls
    /\ trace = NoCalls

\* A direct call of TextGenerator._clean_output.
CleanOutput ==
    /\ pc = "idle"
    /\ \E raw \in RawTexts, prefix \in CleanPrefixes :
        /\ op' = "_clean_output"
        /\ args' = [generated_text |-> raw, prompt_prefix |-> prefix]
        /\ ret' = _clean_output(raw, prefix)
    /\ raised' = FALSE
    /\ generatorCalls' = NoCalls
    /\ classifierCalls' = NoCalls
    /\ trace' = NoCalls
    /\ pc' = "returned"

\* A direct call of TextGenerator._create_sentiment_prompt.
CreateSentimentPrompt ==
    /\ pc = "idle"
    /\ \E prompt \in Prompts, sentiment \in Sentiments, draw \in StyleDraws :
        /\ op' = "_create_sentiment_prompt"
        /\ args' = [prompt |-> prompt, sentiment |-> sentiment]
        /\ ret' = _create_sentiment_prompt(prompt, sentiment, draw)
    /\ raised' = FALSE
    /\ generatorCalls' = NoCalls
    /\ classifierCalls' = NoCalls
    /\ trace' = NoCalls
    /\ pc' = "returned"

\* A call of TextGenerator.generate.
Generate ==
    /\ pc = "idle"
    /\ \E prompt \in Prompts, sentiment \in Sentiments, length \in Lengths :
       \E draw \in DrawsWhen(~is_blank(prompt)),
          yields \in YieldsWhen(~is_blank(prompt), GeneratorYields) :
        \E r \in {generate(prompt, sentiment, length, draw, yields)} :
            /\ op' = "generate"
            /\ args' = [prompt |-> prompt, sentiment |-> sentiment, length |-> length]
            /\ ret' = r.ret
            /\ raised' = r.raised
            /\ generatorCalls' = r.generatorCalls
    /\ classifierCalls' = NoCalls
    /\ trace' = NoCalls
    /\ pc' = "returned"

\* A call of SentimentAnalyzer.analyze.
Analyze ==
    /\ pc = "idle"
    /\ \E text \in Texts :
       \E yields \in YieldsWhen(~is_blank(text), ClassifierYields) :
        \E r \in {analyze(text, yields)} :
            /\ op' = "analyze"
            /\ args' = [text |-> text]
            /\ ret' = r.ret
            /\ raised' = r.raised
            /\ classifierCalls' = r.classifierCalls
    /\ generatorCalls' = NoCalls
    /\ trace' = NoCalls
    /\ pc' = "returned"

\* A call of SentimentAnalyzer.get_sentiment_with_details.
GetSentimentWithDetails ==
    /\ pc = "idle"
    /\ \E text \in Texts :
       \E yields \in YieldsWhen(~is_blank(text), ClassifierYields) :
        \E r \in {get_sentiment_with_details(text, yields)} :
            /\ op' = "get_sentiment_with_details"
            /\ args' = [text |-> text]
            /\ ret' = r.ret
            /\ raised' = r.raised
            /\ classifierCalls' = r.classifierCalls
    /\ generatorCalls' = NoCalls
    /\ trace' = NoCalls
    /\ pc' = "returned"

\* One run of the UI script in which "Generate Text" was pressed.
Main ==
    /\ pc = "idle"
    /\ \E user_prompt \in UiPrompts, use_manual_sentiment \in BOOLEAN,
          length_option \in DOMAIN LENGTH_PRESETS :
       \E i \in IF use_manual_sentiment THEN DOMAIN ManualSentimentOptions ELSE {1},
          classifier_yields \in YieldsWhen(~is_blank(user_prompt) /\ ~use_manual_sentiment,
                                           ClassifierYields),
          draw \in DrawsWhen(~is_blank(user_prompt)),
          generator_yields \in YieldsWhen(~is_blank(user_prompt), GeneratorYields) :
        \E r \in {main_generate(user_prompt, use_manual_sentiment,
                               ManualSentimentOptions[i], length_option,
                               classifier_yields, draw, generator_yields)} :
            /\ op' = "main"
            /\ args' = [user_prompt |-> user_prompt,
                        use_manual_sentiment |-> use_manual_sentiment,
                        length_option |-> length_option]
            /\ ret' = r.ret
            /\ raised' = r.raised
            /\ classifierCalls' = r.classifierCalls
            /\ generatorCalls' = r.generatorCalls
    /\ trace' = NoCalls
    /\ pc' = "returned"

\* A call of TextGenerator.generate_multiple.
GenerateMultiple ==
    /\ pc = "idle"
    /\ \E prompt \in MultiPrompts, sentiment \in MultiSentiments,
          length \in MultiLengths, num_outputs \in NumOutputs :
       \E draws \in [1..num_outputs -> IF is_blank(prompt) THEN {1} ELSE MultiDraws],
          yields \in [1..num_outputs -> YieldsWhen(~is_blank(prompt), MultiYields)] :
        \E r \in {generate_multiple(prompt, sentiment, length, num_outputs, draws, yields)} :
            /\ op' = "generate_multiple"
            /\ args' = [prompt |-> prompt, sentiment |-> sentiment, length |-> length,
                        num_outputs |-> num_outputs]
            /\ ret' = r.ret
            /\ raised' = r.raised
            /\ generatorCalls' = r.generatorCalls
            /\ trace' = r.trace
    /\ classifierCalls' = NoCalls
    /\ pc' = "returned"

\* The call has ended and its frame is gone: neither class keeps a field
\* that an operation writes, so the next call starts from the same state.
Return ==
    /\ pc = "returned"
    /\ pc' = "idle"
    /\ op' = "none"
    /\ args' = <<>>
    /\ ret' = <<>>
    /\ raised' = FALSE
    /\ generatorCalls' = NoCalls
    /\ classifierCalls' = NoCalls
    /\ trace' = NoCalls

Next ==
    \/ CleanOutput
    \/ CreateSentimentPrompt
    \/ Generate
    \/ Analyze
    \/ GetSentimentWithDetails
    \/ Main
    \/ GenerateMultiple
    \/ Return

Spec == Init /\ [][Next]_vars

---------------------------------------------------------------------------
(* Properties *)

Returned(o) == pc = "returned" /\ op = o

AllWhitespace(s) == \A i \in 1..Len(s) : s[i] \in Whitespace

Contains(s, sub) ==
    \E i \in 0..(Len(s) - Len(sub)) : SubSeq(s, i + 1, i + Len(sub)) = sub

SentimentLabels == {positive, negative, neutral}

Punctuation == {".", "!", "?"}

\* C1: for every call generate(prompt, sentiment, length) with a non-blank
\* prompt, the max_length handed to the generator is
\* max(MIN_LENGTH, min(L, MAX_LENGTH)), L being length or DEFAULT_MAX_LENGTH
\* when length is None: MIN_LENGTH for an L below it, MAX_LENGTH for an L
\* above it, L itself otherwise; every max_length any operation hands to the
\* generator lies in MIN_LENGTH..MAX_LENGTH.
C1_MaxLengthClamped ==
    /\ pc = "returned" =>
        \A i \in DOMAIN generatorCalls :
            generatorCalls[i].max_length \in MIN_LENGTH..MAX_LENGTH
    /\ (Returned("generate") /\ ~AllWhitespace(args.prompt)) =>
        /\ Len(generatorCalls) = 1
        /\ LET L == IF args.length.is_none THEN DEFAULT_MAX_LENGTH ELSE args.length.value
               m == generatorCalls[1].max_length
           IN  /\ L < MIN_LENGTH => m = MIN_LENGTH
               /\ L > MAX_LENGTH => m = MAX_LENGTH
               /\ L \in MIN_LENGTH..MAX_LENGTH => m = L

C1_Witness ==
    /\ Returned("generate")
    /\ ~AllWhitespace(args.prompt)
    /\ ~args.length.is_none
    /\ args.length.value < 0
    /\ Len(generatorCalls) = 1
    /\ generatorCalls[1].max_length = MIN_LENGTH

\* C2: generate with an empty or whitespace-only prompt returns the fixed
\* empty-prompt error string as a value, raises nothing and invokes the
\* generator zero times.
C2_BlankPromptSentinel ==
    (Returned("generate") /\ AllWhitespace(args.prompt)) =>
        /\ ret = EmptyPromptError
        /\ ~raised
        /\ generatorCalls = <<>>

C2_Witness ==
    /\ Returned("generate")
    /\ args.prompt = <<" ">>
    /\ args.sentiment = positive
    /\ ret = EmptyPromptError
    /\ generatorCalls = <<>>

\* The text an operation that generates hands back.
ReturnedText == IF op = "main" THEN ret.generated_text ELSE ret

\* C3: when the generator raises during generate (non-blank prompt), no
\* exception leaves generate, and the returned string embeds the failure
\* message; the same holds of the generate call made by the UI flow.
C3_GeneratorFailureIsReturned ==
    (/\ pc = "returned"
     /\ op \in {"generate", "main"}
     /\ generatorCalls # <<>>
     /\ generatorCalls[1].yields.kind = "raise") =>
        /\ ~raised
        /\ Contains(ReturnedText, generatorCalls[1].yields.message)

C3_Witness ==
    /\ Returned("generate")
    /\ generatorCalls # <<>>
    /\ generatorCalls[1].yields.kind = "raise"
    /\ generatorCalls[1].yields.message = <<"b", "o", "o", "m">>
    /\ Contains(ret, <<"b", "o", "o", "m">>)

\* C4: when the classifier raises during analyze on a non-blank text, no
\* exception leaves analyze, and the result has label neutral, confidence 0.0
\* and an error field carrying the failure message; in the UI flow the
\* generation still runs, with sentiment neutral.
C4_ClassifierFailureIsNeutral ==
    (/\ pc = "returned"
     /\ op \in {"analyze", "get_sentiment_with_details", "main"}
     /\ classifierCalls # <<>>
     /\ classifierCalls[1].yields.kind = "raise") =>
        /\ ~raised
        /\ op = "analyze" =>
            ret = [label |-> neutral, confidence |-> 0,
                   error |-> classifierCalls[1].yields.message]
        /\ op = "get_sentiment_with_details" =>
            /\ ret.label = neutral
            /\ ret.confidence = 0
            /\ ret.error = classifierCalls[1].yields.message
        /\ op = "main" =>
            /\ ret.shown = "generated"
            /\ ret.detected_sentiment = neutral
            /\ ret.confidence = 0
            /\ Len(generatorCalls) = 1

C4_Witness ==
    /\ Returned("analyze")
    /\ ~AllWhitespace(args.text)
    /\ classifierCalls # <<>>
    /\ classifierCalls[1].yields.kind = "raise"
    /\ ret.label = neutral
    /\ ret.error = classifierCalls[1].yields.message

\* C5 as stated: analyze on an empty or whitespace-only text returns exactly
\* {label: neutral, confidence: 0.0}, with no other field, without invoking
\* the classifier.
C5_AsStated ==
    (Returned("analyze") /\ AllWhitespace(args.text)) =>
        /\ ret = [label |-> neutral, confidence |-> 0]
        /\ classifierCalls = <<>>

\* C5, amended: analyze on an empty or whitespace-only text returns label
\* neutral, confidence 0.0 and a third field, error, holding "Empty input",
\* and nothing else; it raises nothing and does not invoke the classifier.
C5_BlankTextResult ==
    (Returned("analyze") /\ AllWhitespace(args.text)) =>
        /\ DOMAIN ret = {"label", "confidence", "error"}
        /\ ret.label = neutral
        /\ ret.confidence = 0
        /\ ret.error = EmptyInput
        /\ ~raised
        /\ classifierCalls = <<>>

C5_Witness ==
    /\ Returned("analyze")
    /\ args.text = <<" ", " ">>
    /\ ret.error = EmptyInput
    /\ classifierCalls = <<>>

\* C6: the sentiment label space is closed.  After any analyze call the label
\* is positive, negative or neutral; a native label that reads "positive"
\* (in any letter case) maps to positive, one that reads "negative" to
\* negative, every other native label to neutral; the label the UI flow
\* generates with is one of the three; the manual override offers exactly
\* these three values, which are exactly the keys of PROMPT_TEMPLATES.
C6_LabelSpaceClosed ==
    /\ {ManualSentimentOptions[i] : i \in DOMAIN ManualSentimentOptions} = SentimentLabels
    /\ DOMAIN PROMPT_TEMPLATES = SentimentLabels
    /\ (pc = "returned" /\ op \in {"analyze", "get_sentiment_with_details"}) =>
        /\ ret.label \in SentimentLabels
        /\ (classifierCalls # <<>> /\ classifierCalls[1].yields.kind = "ok") =>
            LET native == lower(classifierCalls[1].yields.label)
            IN  /\ native = positive => ret.label = positive
                /\ native = negative => ret.label = negative
                /\ native \notin {positive, negative} => ret.label = neutral
    /\ (Returned("main") /\ ret.shown = "generated") =>
        ret.detected_sentiment \in SentimentLabels

C6_Witness ==
    /\ Returned("analyze")
    /\ classifierCalls # <<>>
    /\ classifierCalls[1].yields.kind = "ok"
    /\ classifierCalls[1].yields.label = <<"L", "A", "B", "E", "L", "_", "1">>
    /\ ret.label = neutral

\* What _create_sentiment_prompt can return for prompt p under the template
\* of label: one string per style word of that template.
Compositions(label, p) ==
    { (PROMPT_TEMPLATES[label].prefix \o p \o <<".", " ">>)
      \o (<<"T", "h", "i", "s", " ", "i", "s", " ">>
          \o PROMPT_TEMPLATES[label].style_words[i] \o <<".", " ">>)
      : i \in DOMAIN PROMPT_TEMPLATES[label].style_words }

\* C7 as stated: for every sentiment value outside {positive, negative,
\* neutral}, a differently-cased label included, _create_sentiment_prompt
\* uses the neutral prefix and a neutral style word.
C7_AsStated ==
    (Returned("_create_sentiment_prompt") /\ args.sentiment \notin SentimentLabels) =>
        ret \in Compositions(neutral, args.prompt)

\* C7, amended: the sentiment is lower-cased before the lookup.  For every
\* sentiment whose lower-cased form is outside {positive, negative, neutral},
\* _create_sentiment_prompt uses the neutral prefix and a neutral style word;
\* a sentiment whose lower-cased form is one of the three (a differently-cased
\* label) uses that label's prefix and style words.
C7_FallbackAfterLowerCasing ==
    Returned("_create_sentiment_prompt") =>
        LET folded == lower(args.sentiment)
        IN  /\ folded \notin SentimentLabels => ret \in Compositions(neutral, args.prompt)
            /\ folded \in SentimentLabels => ret \in Compositions(folded, args.prompt)

C7_Witness ==
    /\ Returned("_create_sentiment_prompt")
    /\ args.sentiment = <<"h", "a", "p", "p", "y">>
    /\ args.prompt = <<"a">>
    /\ ret \in Compositions(neutral, <<"a">>)

\* The steps of the cleaning, in the order C8 gives them, each computed
\* without the str operations above: the length of the run of spaces s starts
\* with; every maximal run of n spaces cut to (n + 1) \div 2 spaces, which is
\* what one pass over non-overlapping pairs leaves; s between its first and
\* last non-whitespace characters.
RECURSIVE SpaceRun(_)
SpaceRun(s) == IF s # <<>> /\ s[1] = " " THEN 1 + SpaceRun(Tail(s)) ELSE 0

RECURSIVE HalveSpaceRuns(_)
HalveSpaceRuns(s) ==
    IF s = <<>> THEN <<>>
    ELSE IF s[1] = " "
         THEN [i \in 1..((SpaceRun(s) + 1) \div 2) |-> " "]
              \o HalveSpaceRuns(SubSeq(s, SpaceRun(s) + 1, Len(s)))
         ELSE <<s[1]>> \o HalveSpaceRuns(Tail(s))

Trimmed(s) ==
    IF AllWhitespace(s) THEN <<>>
    ELSE LET inked == {i \in 1..Len(s) : s[i] \notin Whitespace}
             first == CHOOSE i \in inked : \A j \in inked : i <= j
             last == CHOOSE i \in inked : \A j \in inked : j <= i
         IN  SubSeq(s, first, last)

WithoutPrefix(raw, prefix) ==
    IF Len(prefix) <= Len(raw) /\ \A i \in 1..Len(prefix) : raw[i] = prefix[i]
    THEN [i \in 1..(Len(raw) - Len(prefix)) |-> raw[Len(prefix) + i]]
    ELSE raw

CleanedAsSpecified(raw, prefix) ==
    LET t == Trimmed(HalveSpaceRuns(WithoutPrefix(raw, prefix)))
    IN  IF t # <<>> /\ t[Len(t)] \notin Punctuation THEN Append(t, ".") ELSE t

\* C8: _clean_output(raw, enhanced_prompt) equals the result of: drop
\* enhanced_prompt from the front of raw if raw begins with it; replace
\* double spaces by single spaces in one non-recursive pass; trim leading and
\* trailing whitespace; append '.' to a non-empty result whose last character
\* is none of '.', '!', '?'.  The result has no leading or trailing
\* whitespace, and an empty result stays empty.
C8_CleanSteps ==
    Returned("_clean_output") =>
        /\ ret = CleanedAsSpecified(args.generated_text, args.prompt_prefix)
        /\ ret # <<>> => (ret[1] \notin Whitespace /\ ret[Len(ret)] \notin Whitespace)

C8_Witness ==
    /\ Returned("_clean_output")
    /\ args.prompt_prefix = <<>>
    /\ args.generated_text = <<"a", " ", " ", " ", "a">>
    /\ ret = <<"a", " ", " ", "a", ".">>

\* C9 as stated: whenever the generator succeeds in a generate call with a
\* non-blank prompt, the returned text does not begin with the composed
\* prompt, is non-empty, and ends in '.', '!' or '?'.
C9_AsStated ==
    (/\ Returned("generate")
     /\ generatorCalls # <<>>
     /\ generatorCalls[1].yields.kind # "raise") =>
        /\ ~startswith(ret, generatorCalls[1].prompt)
        /\ ret # <<>>
        /\ ret[Len(ret)] \in Punctuation

\* C9, amended: whenever the generator succeeds in a generate call with a
\* non-blank prompt, nothing is raised, and the returned text is empty exactly
\* when the generator's output, less one leading copy of the composed prompt,
\* is empty or all whitespace; a non-empty returned text ends in '.', '!' or
\* '?' and has no leading whitespace.  (It may be empty, and it may still
\* begin with the composed prompt when the output began with two copies.)
C9_GeneratedTextShape ==
    (/\ Returned("generate")
     /\ generatorCalls # <<>>
     /\ generatorCalls[1].yields.kind # "raise") =>
        LET enhanced == generatorCalls[1].prompt
            rest == WithoutPrefix(generated_text(enhanced, generatorCalls[1].yields),
                                  enhanced)
        IN  /\ ~raised
            /\ ret = <<>> <=> AllWhitespace(rest)
            /\ ret # <<>> => (ret[Len(ret)] \in Punctuation /\ ret[1] \notin Whitespace)

C9_Witness ==
    /\ Returned("generate")
    /\ generatorCalls # <<>>
    /\ generatorCalls[1].yields = [kind |-> "echo", text |-> <<"a">>]
    /\ ret = <<"a", ".">>

\* C10 as stated: whatever score the classifier returns, the confidence in
\* the result of analyze lies in [0, 1] (0..100 in hundredths).
C10_ConfidenceInUnitInterval ==
    (pc = "returned" /\ op \in {"analyze", "get_sentiment_with_details"}) =>
        ret.confidence \in 0..100

\* What the k-th generate call of a generate_multiple call has to return,
\* from the arguments and from what the generator gave that call.
ExpectedOutput(k) ==
    IF AllWhitespace(args.prompt) THEN EmptyPromptError
    ELSE IF generatorCalls[k].yields.kind = "raise"
         THEN GenerationErrorPrefix \o generatorCalls[k].yields.message
         ELSE CleanedAsSpecified(
                  generated_text(generatorCalls[k].prompt, generatorCalls[k].yields),
                  generatorCalls[k].prompt)

\* C11: generate_multiple(prompt, sentiment, length, n), n >= 0, invokes
\* generate exactly n times with the same prompt, sentiment and length, calls
\* set_seed(42 + i) immediately before the i-th call (i = 0..n-1) and at no
\* other point, and returns a list of exactly n strings whose i-th element is
\* the result of the i-th call, in call order; it never raises, each element
\* being generated text or an error string.
C11_GenerateMultipleSequence ==
    (Returned("generate_multiple") /\ args.num_outputs >= 0) =>
        LET n == args.num_outputs
        IN  /\ ~raised
            /\ Len(trace) = 2 * n
            /\ Len(ret) = n
            /\ Len(generatorCalls) = IF AllWhitespace(args.prompt) THEN 0 ELSE n
            /\ \A i \in 0..(n - 1) :
                /\ trace[2 * i + 1] = [call |-> "set_seed", seed |-> 42 + i]
                /\ trace[2 * i + 2].call = "generate"
                /\ trace[2 * i + 2].prompt = args.prompt
                /\ trace[2 * i + 2].sentiment = args.sentiment
                /\ trace[2 * i + 2].length = args.length
                /\ ~trace[2 * i + 2].raised
                /\ ret[i + 1] = trace[2 * i + 2].ret
                /\ ret[i + 1] = ExpectedOutput(i + 1)

C11_Witness ==
    /\ Returned("generate_multiple")
    /\ args.num_outputs = 3
    /\ args.prompt = <<"a">>
    /\ Len(trace) = 6
    /\ trace[1].seed = 42 /\ trace[3].seed = 43 /\ trace[5].seed = 44
    /\ generatorCalls[1].yields.kind = "echo"
    /\ generatorCalls[2].yields.kind = "raise"
    /\ generatorCalls[3].yields.kind = "plain"
    /\ ret = << <<"a", ".">>, GenerationErrorPrefix \o <<"b", "o", "o", "m">>, <<>> >>

===========================================================================
